---------------------------- MODULE Spec2Model ----------------------------
(***************************************************************************)
(* A model of supercluster (src/index.js): the zoom cascade of greedy      *)
(* merge passes built by load, and the query path of getClusters.           *)
(*                                                                         *)
(* Numbers.  The projected plane [0,1] is measured in units of 1/360, so   *)
(* that lngX(lng) = lng/360 + 0.5 is lng + 180 for a whole number of       *)
(* degrees.  Anchors (x, y) are whole units.  Weighted centers (wx, wy)     *)
(* are kept in units of 1/(360 * WDen), which makes the division of        *)
(* src/index.js:109-110 exact.  The search radius radius/(extent * 2^zoom)  *)
(* is the fraction rNum / rDen(zoom) of a unit; every comparison with it   *)
(* is cross-multiplied, so no rounding enters the model.  Floating point   *)
(* rounding of the source is not modelled.                                 *)
(*                                                                         *)
(* The R-tree (rbush) is modelled by its contents: trees[z] is the set of  *)
(* nodes held by the index of zoom z.  rbush's load bulk-inserts into the  *)
(* tree it is called on, and search returns the items whose box intersects *)
(* the query box, in an order that depends on the tree's shape.            *)
(***************************************************************************)
EXTENDS Integers, Sequences, FiniteSets, TLC

VARIABLES
    nodes,      \* every cluster object created so far, by identity (its index)
    subsumes,   \* ghost: for each cluster object, the leaf objects counted in its numPoints
    trees,      \* this.trees: zoom -> set of cluster objects in that R-tree
    pc,         \* "idle" (no call running) or "cluster" (inside load's loop, in _cluster)
    input,      \* the points argument of the latest load
    base,       \* ghost: number of cluster objects that existed when the latest load began
    points,     \* _cluster's points parameter (load's clusters variable)
    z,          \* load's loop variable z (_cluster's zoom parameter)
    i,          \* _cluster's loop variable i (1-based)
    clusters,   \* _cluster's local clusters: the output built so far
    loads,      \* number of completed calls of load
    query,      \* arguments of the latest getClusters call, <<>> if none
    result      \* what the latest getClusters call returned

vars == <<nodes, subsumes, trees, pc, input, base, points, z, i, clusters,
          loads, query, result>>

-----------------------------------------------------------------------------
(* Configuration and bounds *)

\* options passed to supercluster(options); the zoom range is scaled down
minZoom == 0
maxZoom == 2
radius == 1
extent == 90

\* longest points array handed to load
MaxPoints == 3

\* the 360 of lngX: units per plane width
Grid == 360

\* JavaScript's Infinity (createCluster's initial zoom) and NaN
Infinity == 1000000
NaN == -777777

RECURSIVE Factorial(_)
Factorial(n) == IF n <= 1 THEN 1 ELSE n * Factorial(n - 1)

\* denominator of the weighted centers: every numPoints divides it
WDen == Factorial(MaxPoints + 1)

RECURSIVE Pow2(_)
Pow2(n) == IF n <= 0 THEN 1 ELSE 2 * Pow2(n - 1)

Max(a, b) == IF a >= b THEN a ELSE b
Min(a, b) == IF a <= b THEN a ELSE b

RECURSIVE SumSeq(_)
SumSeq(s) == IF s = <<>> THEN 0 ELSE Head(s) + SumSeq(Tail(s))

RECURSIVE SetToSeqs(_)
\* all orders in which the elements of a finite set can be listed
SetToSeqs(S) ==
    IF S = {} THEN {<<>>}
    ELSE UNION {{<<e>> \o t : t \in SetToSeqs(S \ {e})} : e \in S}

Range(s) == {s[k] : k \in DOMAIN s}


-----------------------------------------------------------------------------
(* Coordinate projection, src/index.js:160-178 *)

\* lng / 360 + 0.5, in units of 1/360; NaN for a non-numeric longitude
lngX(lng) == IF lng = NaN THEN NaN ELSE lng + Grid \div 2

\* 360 * (0.5 - 0.25 * log((1 + sin) / (1 - sin)) / PI) with sin = sin(lat * PI / 180),
\* rounded to the unit, at the latitudes the model uses.  At +-90 degrees
\* 1 - sin (1 + sin) is 0 and the logarithm is +-Infinity.
mercatorY(lat) ==
    CASE lat = -90 -> Infinity
      [] lat = -85 -> 359
      [] lat = -1 -> 181
      [] lat = 0 -> 180
      [] lat = 1 -> 179
      [] lat = 85 -> 1
      [] lat = 86 -> -12
      [] lat = 89 -> -92
      [] lat = 90 -> -Infinity

\* variant: the projection is not clamped
latYUnclamped(lat) == IF lat = NaN THEN NaN ELSE mercatorY(lat)

\* y < 0 ? 0 : y > 1 ? 1 : y; both comparisons are false for NaN
latY(lat) ==
    IF lat = NaN THEN NaN
    ELSE LET y == mercatorY(lat)
         IN  IF y < 0 THEN 0 ELSE IF y > Grid THEN Grid ELSE y

\* (x - 0.5) * 360: degrees, in units of 1/WDen, of a weighted center x
xLng(x) == x - (Grid \div 2) * WDen

\* 360 * atan(exp((180 - y * 360) * PI / 180)) / PI - 90: degrees, in units of
\* 1/WDen, of a weighted center y.  Within 4 degrees of the equator the inverse
\* Mercator map is linear to the rounding of mercatorY; at y = 0 it is 85.05.
yLat(y) ==
    CASE y = 0 -> (8505 * WDen) \div 100
      [] y >= 176 * WDen /\ y <= 184 * WDen -> (Grid \div 2) * WDen - y

-----------------------------------------------------------------------------
(* Cluster objects, src/index.js:139-198 *)

\* a GeoJSON point feature; id stands for its opaque payload
Feature(id, coords) ==
    [type |-> "Feature", properties |-> [id |-> id],
     geometry |-> [type |-> "Point", coordinates |-> coords]]

\* children and point are <<>> for null; point is <<feature>> when set
createCluster(x, y) ==
    [x |-> x, y |-> y,
     wx |-> IF x = NaN THEN NaN ELSE x * WDen,
     wy |-> IF y = NaN THEN NaN ELSE y * WDen,
     zoom |-> Infinity, children |-> <<>>, point |-> <<>>, numPoints |-> 1]

createPointCluster(p) ==
    LET coords == p.geometry.coordinates
        cluster == createCluster(lngX(coords[1]), latY(coords[2]))
    IN  [cluster EXCEPT !.point = <<p>>]

\* variant: every object is turned into a synthesized cluster feature
getClusterSynthesized(cluster) ==
    [type |-> "Feature",
     properties |-> [cluster |-> TRUE, numPoints |-> cluster.numPoints],
     geometry |-> [type |-> "Point",
                   coordinates |-> <<xLng(cluster.wx), yLat(cluster.wy)>>]]

getCluster(cluster) ==
    IF cluster.point # <<>> THEN cluster.point[1]
    ELSE [type |-> "Feature",
          properties |-> [cluster |-> TRUE, numPoints |-> cluster.numPoints],
          geometry |-> [type |-> "Point",
                        coordinates |-> <<xLng(cluster.wx), yLat(cluster.wy)>>]]

distSq(a, b) ==
    LET dx == a.x - b.x
        dy == a.y - b.y
    IN  dx * dx + dy * dy

-----------------------------------------------------------------------------
(* The R-tree, as src/index.js uses it *)

\* rbush's intersects for an item whose box is the point (x, y); the query box is
\* [minX, minY, maxX, maxY] / den.  A comparison with NaN is false.
intersects(box, item) ==
    /\ item.x # NaN /\ item.y # NaN
    /\ box.minX # NaN /\ box.minY # NaN /\ box.maxX # NaN /\ box.maxY # NaN
    /\ item.x * box.den <= box.maxX
    /\ item.y * box.den <= box.maxY
    /\ item.x * box.den >= box.minX
    /\ item.y * box.den >= box.minY

\* tree.search(box): the objects of the tree whose point lies in the box.
\* rbush also keeps a box per tree node; what a NaN coordinate does to the boxes
\* of the tree nodes above it is not modelled: an object with a NaN coordinate
\* is never found, and the others are found as if it were absent.
search(ns, tree, box) == {b \in tree : intersects(box, ns[b])}

\* tree.load(data): bulk insertion into the tree, which keeps what it held
treeLoad(tree, data) == tree \cup Range(data)

\* this.trees after _initTrees: one empty R-tree per zoom 0 .. maxZoom + 1
initTrees == [zz \in 0..(maxZoom + 1) |-> {}]

-----------------------------------------------------------------------------
(* The merge pass, src/index.js:71-136 *)

\* r = radius / (extent * 2^zoom) of the plane is rNum / rDen(zoom) units
rNum == radius * Grid
rDen(zoom) == extent * Pow2(zoom)

\* variant: the search box extends from p to one side only
neighborBoxOneSided(p, zoom) ==
    LET den == rDen(zoom)
    IN  [minX |-> IF p.x = NaN THEN NaN ELSE p.x * den,
         minY |-> IF p.y = NaN THEN NaN ELSE p.y * den,
         maxX |-> IF p.x = NaN THEN NaN ELSE p.x * den + rNum,
         maxY |-> IF p.y = NaN THEN NaN ELSE p.y * den + rNum,
         den |-> den]

\* [p.x - r, p.y - r, p.x + r, p.y + r]
neighborBox(p, zoom) ==
    LET den == rDen(zoom)
    IN  [minX |-> IF p.x = NaN THEN NaN ELSE p.x * den - rNum,
         minY |-> IF p.y = NaN THEN NaN ELSE p.y * den - rNum,
         maxX |-> IF p.x = NaN THEN NaN ELSE p.x * den + rNum,
         maxY |-> IF p.y = NaN THEN NaN ELSE p.y * den + rNum,
         den |-> den]

\* variant: the filter forgets the processed flag
unprocessedAny(b, zoom) == TRUE

\* zoom < b.zoom: b was not processed in this pass
unprocessed(b, zoom) == zoom < b.zoom

\* variant: the filter keeps every result of the bounding box search
withinRadiusBoxOnly(p, b, zoom) == TRUE

\* variant: the filter excludes the boundary of the circle
withinRadiusStrict(p, b, zoom) ==
    distSq(p, b) * rDen(zoom) * rDen(zoom) < rNum * rNum

\* distSq(p, b) <= r * r
withinRadius(p, b, zoom) ==
    distSq(p, b) * rDen(zoom) * rDen(zoom) <= rNum * rNum

\* _getNeighbors(p, zoom) as a set, on the cluster objects ns and the index tr;
\* p and the result are object identities
getNeighbors(ns, tr, p, zoom) ==
    LET bboxNeighbors == search(ns, tr[zoom + 1], neighborBox(ns[p], zoom))
    IN  {b \in bboxNeighbors :
            unprocessed(ns[b], zoom) /\ withinRadius(ns[p], ns[b], zoom)}

\* variant: no point counts as visited
visitedNever(point, zoom) == FALSE

\* point.zoom <= zoom: the point was visited at this zoom level
visited(point, zoom) == point.zoom <= zoom

\* variant: the cluster is anchored at its weighted center
formClusterAtCenter(ns, point, nb) ==
    LET numPoints == point.numPoints + SumSeq([j \in DOMAIN nb |-> ns[nb[j]].numPoints])
        wx == point.wx * point.numPoints
              + SumSeq([j \in DOMAIN nb |-> ns[nb[j]].x * WDen * ns[nb[j]].numPoints])
        wy == point.wy * point.numPoints
              + SumSeq([j \in DOMAIN nb |-> ns[nb[j]].y * WDen * ns[nb[j]].numPoints])
        cluster == createCluster((wx \div numPoints) \div WDen,
                                 (wy \div numPoints) \div WDen)
    IN  [cluster EXCEPT !.children = nb, !.numPoints = numPoints,
                        !.wx = wx \div numPoints, !.wy = wy \div numPoints]

\* variant: every turn of the accumulation reads the first neighbor's anchor
formClusterFirstNeighbor(ns, point, nb) ==
    LET numPoints == point.numPoints + SumSeq([j \in DOMAIN nb |-> ns[nb[j]].numPoints])
        wx == point.wx * point.numPoints
              + SumSeq([j \in DOMAIN nb |-> ns[nb[1]].x * WDen * ns[nb[j]].numPoints])
        wy == point.wy * point.numPoints
              + SumSeq([j \in DOMAIN nb |-> ns[nb[1]].y * WDen * ns[nb[j]].numPoints])
        cluster == createCluster(point.x, point.y)
    IN  [cluster EXCEPT !.children = nb, !.numPoints = numPoints,
                        !.wx = wx \div numPoints, !.wy = wy \div numPoints]

\* lines 91-110: the cluster formed by point with the neighbors nb (identities,
\* in the order the search returned them)
formCluster(ns, point, nb) ==
    LET numPoints == point.numPoints + SumSeq([j \in DOMAIN nb |-> ns[nb[j]].numPoints])
        wx == point.wx * point.numPoints
              + SumSeq([j \in DOMAIN nb |-> ns[nb[j]].x * WDen * ns[nb[j]].numPoints])
        wy == point.wy * point.numPoints
              + SumSeq([j \in DOMAIN nb |-> ns[nb[j]].y * WDen * ns[nb[j]].numPoints])
        cluster == createCluster(point.x, point.y)
    IN  [cluster EXCEPT !.children = nb, !.numPoints = numPoints,
                        !.wx = wx \div numPoints, !.wy = wy \div numPoints]

\* b.zoom = zoom for every neighbor b (line 97), after point.zoom = zoom (line 81)
claim(ns, ids, zoom) == [n \in DOMAIN ns |->
                            IF n \in ids THEN [ns[n] EXCEPT !.zoom = zoom] ELSE ns[n]]

\* ghost: the leaves counted by the numPoints of formCluster's result
subsumedBy(sub, p, nb) == sub[p] \cup UNION {sub[nb[j]] : j \in DOMAIN nb}

-----------------------------------------------------------------------------
(* load, src/index.js:26-53 *)

\* [lng, lat] of the features: four points near (0, 0), one at the pole, one
\* with a longitude out of range and a non-numeric latitude
Coordinates ==
    {<<0, 0>>, <<1, 0>>, <<3, 0>>, <<1, 1>>, <<0, 90>>, <<200, NaN>>}

\* the arrays of features load is called with
Inputs ==
    UNION {{[k \in 1..n |-> Feature(k, c[k])] : c \in [1..n -> Coordinates]} :
              n \in 0..MaxPoints}

Init ==
    /\ nodes = <<>>
    /\ subsumes = <<>>
    /\ trees = initTrees
    /\ pc = "idle"
    /\ input = <<>>
    /\ base = 0
    /\ points = <<>>
    /\ z = 0
    /\ i = 0
    /\ clusters = <<>>
    /\ loads = 0
    /\ query = <<>>
    /\ result = [threw |-> FALSE, features |-> <<>>]

\* load(pts) up to its first call of _cluster: lines 26-44.  query and result
\* record the latest getClusters call on the hierarchy as it stands; a new load
\* starts the record afresh.
LoadCall(pts) ==
    LET n == Len(nodes)
        created == [k \in 1..Len(pts) |-> createPointCluster(pts[k])]
        ids == [k \in 1..Len(pts) |-> n + k]
    IN  /\ nodes' = nodes \o created
        /\ subsumes' = subsumes \o [k \in 1..Len(pts) |-> {n + k}]
        /\ input' = pts
        /\ base' = n
        /\ query' = <<>>
        /\ result' = [threw |-> FALSE, features |-> <<>>]
        /\ IF maxZoom >= minZoom
           THEN /\ trees' = [trees EXCEPT ![maxZoom + 1] = treeLoad(@, ids)]
                /\ pc' = "cluster"
                /\ points' = ids
                /\ z' = maxZoom
                /\ i' = 1
                /\ clusters' = <<>>
                /\ loads' = loads
           ELSE /\ trees' = [trees EXCEPT ![minZoom] = treeLoad(@, ids)]
                /\ pc' = "idle"
                /\ loads' = loads + 1
                /\ UNCHANGED <<points, z, i, clusters>>

\* the first load of a new instance
Load ==
    /\ pc = "idle"
    /\ loads = 0
    /\ \E pts \in Inputs : LoadCall(pts)

\* one turn of _cluster's loop for a point already visited at this zoom (line 79)
ClusterSkip ==
    /\ pc = "cluster"
    /\ i <= Len(points)
    /\ visited(nodes[points[i]], z)
    /\ i' = i + 1
    /\ UNCHANGED <<nodes, subsumes, trees, pc, input, base, points, z, clusters,
                   loads, query, result>>

\* variant: a point without neighbors is not added to the output
ClusterSingleDropped ==
    /\ pc = "cluster"
    /\ i <= Len(points)
    /\ ~visited(nodes[points[i]], z)
    /\ LET p == points[i]
           marked == claim(nodes, {p}, z)
       IN  /\ getNeighbors(marked, trees, p, z) = {}
           /\ nodes' = marked
    /\ i' = i + 1
    /\ UNCHANGED <<subsumes, trees, pc, input, base, points, z, clusters, loads,
                   query, result>>

\* one turn of _cluster's loop for a point without neighbors (lines 81-89)
ClusterSingle ==
    /\ pc = "cluster"
    /\ i <= Len(points)
    /\ ~visited(nodes[points[i]], z)
    /\ LET p == points[i]
           marked == claim(nodes, {p}, z)
       IN  /\ getNeighbors(marked, trees, p, z) = {}
           /\ nodes' = marked
           /\ clusters' = Append(clusters, p)
    /\ i' = i + 1
    /\ UNCHANGED <<subsumes, trees, pc, input, base, points, z, loads, query, result>>

\* one turn of _cluster's loop for a point with neighbors (lines 81-112); the
\* search returns the neighbors in some order
ClusterMerge ==
    /\ pc = "cluster"
    /\ i <= Len(points)
    /\ ~visited(nodes[points[i]], z)
    /\ LET p == points[i]
           marked == claim(nodes, {p}, z)
           found == getNeighbors(marked, trees, p, z)
       IN  /\ found # {}
           /\ \E neighbors \in SetToSeqs(found) :
                /\ nodes' = Append(claim(marked, found, z),
                                   formCluster(marked, marked[p], neighbors))
                /\ subsumes' = Append(subsumes, subsumedBy(subsumes, p, neighbors))
                /\ clusters' = Append(clusters, Len(nodes) + 1)
    /\ i' = i + 1
    /\ UNCHANGED <<trees, pc, input, base, points, z, loads, query, result>>

\* _cluster returns (line 115); load goes on with the next zoom (lines 40-44) or
\* indexes the top-level clusters and returns (line 48)
ClusterReturn ==
    /\ pc = "cluster"
    /\ i > Len(points)
    /\ IF z - 1 >= minZoom
       THEN /\ trees' = [trees EXCEPT ![(z - 1) + 1] = treeLoad(@, clusters)]
            /\ points' = clusters
            /\ z' = z - 1
            /\ i' = 1
            /\ clusters' = <<>>
            /\ UNCHANGED <<pc, loads>>
       ELSE /\ trees' = [trees EXCEPT ![minZoom] = treeLoad(@, clusters)]
            /\ pc' = "idle"
            /\ loads' = loads + 1
            /\ points' = <<>>
            /\ z' = 0
            /\ i' = 0
            /\ clusters' = <<>>
    /\ UNCHANGED <<nodes, subsumes, input, base, query, result>>

-----------------------------------------------------------------------------
(* getClusters, src/index.js:55-60 *)

\* variant: south and north are not swapped when the box is projected
projBBoxUninverted(bbox) ==
    [minX |-> lngX(bbox[1]), minY |-> latY(bbox[2]),
     maxX |-> lngX(bbox[3]), maxY |-> latY(bbox[4]), den |-> 1]

\* [lngX(bbox[0]), latY(bbox[3]), lngX(bbox[2]), latY(bbox[1])]
projBBox(bbox) ==
    [minX |-> lngX(bbox[1]), minY |-> latY(bbox[4]),
     maxX |-> lngX(bbox[3]), maxY |-> latY(bbox[2]), den |-> 1]

\* variant: the zoom is clamped from above only
clampZoomAbove(zoom) == Min(zoom, maxZoom + 1)

\* Math.max(minZoom, Math.min(zoom, maxZoom + 1))
clampZoom(zoom) == Max(minZoom, Min(zoom, maxZoom + 1))

\* what getClusters(bbox, zoom) returns: a feature for each object found (the
\* order of the array is the search's); this.trees[z] is undefined outside
\* 0 .. maxZoom + 1 and calling search on it throws
getClusters(bbox, zoom) ==
    LET zc == clampZoom(zoom)
    IN  IF zc \notin DOMAIN trees
        THEN [threw |-> TRUE, features |-> <<>>]
        ELSE [threw |-> FALSE,
              features |-> [n \in search(nodes, trees[zc], projBBox(bbox)) |->
                               getCluster(nodes[n])]]

\* bounding boxes [west, south, east, north] and zooms queried
BBoxes ==
    {<<-180, -85, 180, 85>>, <<-180, -90, 180, 90>>, <<-10, 86, 10, 89>>,
     <<1, -1, 2, 1>>}
Zooms == (minZoom - 1)..(maxZoom + 2)

\* variant: the search takes what it finds out of the index
GetClustersConsuming ==
    /\ pc = "idle"
    /\ \E bbox \in BBoxes, zoom \in Zooms :
         /\ query' = <<bbox, zoom>>
         /\ result' = getClusters(bbox, zoom)
         /\ trees' = [trees EXCEPT ![clampZoom(zoom)] =
                          @ \ search(nodes, @, projBBox(bbox))]
    /\ UNCHANGED <<nodes, subsumes, pc, input, base, points, z, i, clusters, loads>>

GetClusters ==
    /\ pc = "idle"
    /\ \E bbox \in BBoxes, zoom \in Zooms :
         /\ query' = <<bbox, zoom>>
         /\ result' = getClusters(bbox, zoom)
    /\ UNCHANGED <<nodes, subsumes, trees, pc, input, base, points, z, i,
                   clusters, loads>>

Next == Load \/ ClusterSkip \/ ClusterSingle \/ ClusterMerge \/ ClusterReturn
        \/ GetClusters

Spec == Init /\ [][Next]_vars

-----------------------------------------------------------------------------
(* Reloading: a second load on the same instance *)

\* number of load calls on one instance
MaxLoads == 2

\* the arrays of features a later load is called with
ReloadInputs ==
    UNION {{[k \in 1..n |-> Feature(k, c[k])] : c \in [1..n -> Coordinates]} :
              n \in 0..1}

\* load called again on an instance that was loaded before
Reload ==
    /\ pc = "idle"
    /\ loads >= 1
    /\ loads < MaxLoads
    /\ \E pts \in ReloadInputs : LoadCall(pts)

NextReload == Next \/ Reload

SpecReload == Init /\ [][NextReload]_vars

-----------------------------------------------------------------------------
(* Notions the properties are stated with *)

\* the zoom tiers of the hierarchy
Tiers == minZoom..(maxZoom + 1)

\* no call is running and load has completed once, on a new instance
Loaded == pc = "idle" /\ loads = 1

RECURSIVE SumNumPoints(_)
SumNumPoints(S) ==
    IF S = {} THEN 0
    ELSE LET n == CHOOSE m \in S : TRUE
         IN  nodes[n].numPoints + SumNumPoints(S \ {n})

\* the sum of numPoints over the nodes held by the index of a tier
TierMass(tier) == SumNumPoints(trees[tier])

\* the leaf created for the k-th feature of the latest load
Leaf(k) == base + k

Abs(a) == IF a < 0 THEN -a ELSE a

\* the projected distance of leaves a and b is at most num / den units
\* (each axis is compared first, which keeps the products small)
DistanceAtMost(a, b, num, den) ==
    /\ Abs(nodes[a].x - nodes[b].x) * den <= num
    /\ Abs(nodes[a].y - nodes[b].y) * den <= num
    /\ distSq(nodes[a], nodes[b]) * den * den <= num * num

\* the features' coordinates are numbers inside the geographic box
Covers(bbox, pts) ==
    \A k \in DOMAIN pts :
        LET c == pts[k].geometry.coordinates
        IN  /\ c[1] # NaN /\ c[2] # NaN
            /\ bbox[1] <= c[1] /\ c[1] <= bbox[3]
            /\ bbox[2] <= c[2] /\ c[2] <= bbox[4]

-----------------------------------------------------------------------------
(* Properties *)

\* C1. Mass conservation: after load on a new instance, in every tier
\* minZoom .. maxZoom + 1 the numPoints of the nodes of the tier sum to the
\* number of input points.
C1_MassConservation ==
    Loaded => \A tier \in Tiers : TierMass(tier) = Len(input)

\* C1 happens: three points were loaded and the coarsest tier holds a merged node
C1_Witness ==
    /\ Loaded
    /\ Len(input) = 3
    /\ \E n \in trees[minZoom] : nodes[n].numPoints >= 2

\* C2. load rebuilds from scratch: once load has completed, every tier holds
\* only nodes created by the latest load, and their numPoints sum to the number
\* of points of that load; no node of an earlier load remains.
C2_RebuildFromScratch ==
    (pc = "idle" /\ loads >= 1) =>
        \A tier \in Tiers :
            /\ \A n \in trees[tier] : n > base
            /\ TierMass(tier) = Len(input)

\* C3 as claimed. Two points subsumed by one node of tier z (minZoom .. maxZoom)
\* are at a projected distance of at most r_z = radius / (extent * 2^z).
C3_SeparationAsClaimed ==
    \A tier \in minZoom..maxZoom : \A n \in trees[tier] :
        \A a, b \in subsumes[n] :
            a # b => DistanceAtMost(a, b, rNum, rDen(tier))

\* C3, amended. Two points subsumed by one node of tier z are at a projected
\* distance of at most 2 * (r_z + r_(z+1) + ... + r_maxZoom), which is less
\* than 4 * r_z; and a node is absorbed only by a head whose anchor is within
\* r_z of its own anchor, z being the zoom of the pass (the zoom the absorbed
\* node keeps as its flag).
C3_Separation ==
    /\ \A tier \in minZoom..maxZoom : \A n \in trees[tier] :
           \A a, b \in subsumes[n] :
               a # b => DistanceAtMost(a, b,
                                       2 * rNum * (Pow2(maxZoom - tier + 1) - 1),
                                       rDen(maxZoom))
    /\ \A n \in DOMAIN nodes : \A j \in DOMAIN nodes[n].children :
           LET b == nodes[nodes[n].children[j]]
           IN  distSq(nodes[n], b) * rDen(b.zoom) * rDen(b.zoom) <= rNum * rNum

\* C3 happens: a node of some tier subsumes two points farther apart than the
\* radius of that tier
C3_Witness ==
    \E tier \in minZoom..maxZoom : \E n \in trees[tier] :
        \E a, b \in subsumes[n] :
            a # b /\ ~DistanceAtMost(a, b, rNum, rDen(tier))

\* C4. Monotonic coarsening: two points subsumed by one aggregate of tier z are
\* subsumed by one node of every tier z' with minZoom <= z' < z.
C4_MonotonicCoarsening ==
    Loaded =>
        \A tier \in minZoom..maxZoom : \A n \in trees[tier] :
            \A a, b \in subsumes[n] :
                \A coarser \in minZoom..(tier - 1) :
                    \E m \in trees[coarser] : {a, b} \subseteq subsumes[m]

\* C4 happens: an aggregate of the finest merged tier was merged further in the
\* coarsest tier
C4_Witness ==
    /\ Loaded
    /\ \E n \in trees[maxZoom] : \E m \in trees[minZoom] :
          /\ Cardinality(subsumes[n]) >= 2
          /\ subsumes[n] \subseteq subsumes[m]
          /\ subsumes[n] # subsumes[m]

\* C5. Unclustered top zoom: after load, getClusters at zoom maxZoom + 1 with a
\* box covering all points returns one feature per input point, each the input
\* feature itself.
C5_UnclusteredTopZoom ==
    (Loaded /\ query # <<>> /\ query[2] = maxZoom + 1 /\ Covers(query[1], input)) =>
        /\ ~result.threw
        /\ Cardinality(DOMAIN result.features) = Len(input)
        /\ {result.features[n] : n \in DOMAIN result.features} = Range(input)

\* C5 happens: two points that the next tier merges are returned unmerged
C5_Witness ==
    /\ Loaded /\ query # <<>> /\ query[2] = maxZoom + 1 /\ Covers(query[1], input)
    /\ Len(input) = 2
    /\ Cardinality(trees[maxZoom]) = 1
    /\ Cardinality(DOMAIN result.features) = 2

\* the projected position of a feature's coordinates
Projected(c) == [x |-> lngX(c[1]), y |-> latY(c[2])]

\* the geographic box holds the coordinates c
InGeoBox(bbox, c) ==
    /\ c[1] # NaN /\ c[2] # NaN
    /\ bbox[1] <= c[1] /\ c[1] <= bbox[3]
    /\ bbox[2] <= c[2] /\ c[2] <= bbox[4]

\* south and north of the box lie in the band that latY does not clamp
Unclamped(bbox) ==
    /\ 0 < mercatorY(bbox[2]) /\ mercatorY(bbox[2]) < Grid
    /\ 0 < mercatorY(bbox[4]) /\ mercatorY(bbox[4]) < Grid

\* C6 as claimed. After load, getClusters with a box that contains none of the
\* input points' coordinates returns nothing, at every zoom.
C6_EmptyQueryAsClaimed ==
    (/\ Loaded /\ query # <<>>
     /\ \A k \in DOMAIN input : ~InGeoBox(query[1], input[k].geometry.coordinates)) =>
        DOMAIN result.features = {}

\* C6, amended. After load, getClusters with a box whose projection contains
\* none of the input points' projected positions returns nothing, at every
\* zoom; for a box whose south and north are not clamped by latY that is the
\* case whenever the box contains none of the input points' coordinates.
C6_EmptyQuery ==
    /\ (/\ Loaded /\ query # <<>>
        /\ \A k \in DOMAIN input :
              ~intersects(projBBox(query[1]), Projected(input[k].geometry.coordinates))) =>
           (~result.threw /\ DOMAIN result.features = {})
    /\ (/\ Loaded /\ query # <<>> /\ Unclamped(query[1])
        /\ \A k \in DOMAIN input : ~InGeoBox(query[1], input[k].geometry.coordinates)) =>
           (~result.threw /\ DOMAIN result.features = {})

\* C6 happens: the tier queried holds a cluster whose weighted center is inside
\* the projected box, no input point is inside, and nothing is returned
C6_Witness ==
    /\ Loaded /\ query # <<>>
    /\ \A k \in DOMAIN input : ~InGeoBox(query[1], input[k].geometry.coordinates)
    /\ \E n \in trees[clampZoom(query[2])] :
          LET box == projBBox(query[1])
          IN  /\ nodes[n].numPoints >= 2
              /\ box.minX * WDen <= nodes[n].wx /\ nodes[n].wx <= box.maxX * WDen
              /\ box.minY * WDen <= nodes[n].wy /\ nodes[n].wy <= box.maxY * WDen
    /\ DOMAIN result.features = {}

\* C7. Proximity implies merge: when exactly two points were loaded, at a
\* projected distance of at most r_z, getClusters at zoom z (minZoom .. maxZoom)
\* with a box covering both returns one cluster feature with numPoints = 2.
C7_ProximityMerge ==
    (/\ Loaded /\ query # <<>> /\ Len(input) = 2
     /\ query[2] \in minZoom..maxZoom
     /\ Covers(query[1], input)
     /\ DistanceAtMost(Leaf(1), Leaf(2), rNum, rDen(query[2]))) =>
        /\ ~result.threw
        /\ \E n \in DOMAIN result.features :
              /\ DOMAIN result.features = {n}
              /\ result.features[n].properties = [cluster |-> TRUE, numPoints |-> 2]

\* C7 happens: two distinct points exactly r apart at the finest zoom are
\* returned as one cluster
C7_Witness ==
    /\ Loaded /\ query # <<>> /\ Len(input) = 2
    /\ query[2] = maxZoom
    /\ Covers(query[1], input)
    /\ DistanceAtMost(Leaf(1), Leaf(2), rNum, rDen(maxZoom))
    /\ distSq(nodes[Leaf(1)], nodes[Leaf(2)]) * rDen(maxZoom) * rDen(maxZoom) = rNum * rNum
    /\ Cardinality(DOMAIN result.features) = 1

\* zoom clamped to minZoom .. maxZoom + 1
Clamped(zoom) ==
    IF zoom < minZoom THEN minZoom ELSE IF zoom > maxZoom + 1 THEN maxZoom + 1 ELSE zoom

\* the features of the nodes of a tier whose anchor is in the projected box
TierFeatures(bbox, tier) ==
    [n \in {m \in trees[tier] : intersects(projBBox(bbox), nodes[m])} |->
        getCluster(nodes[n])]

\* C8. Zoom clamping: getClusters(bbox, zoom) does not fail for any integer zoom
\* and returns what the tier of the clamped zoom holds in the box: tier minZoom
\* for a zoom below minZoom, tier maxZoom + 1 for a zoom above maxZoom + 1.
C8_ZoomClamping ==
    (pc = "idle" /\ query # <<>>) =>
        /\ ~result.threw
        /\ result.features = TierFeatures(query[1], Clamped(query[2]))

\* C8 happens: a zoom below minZoom returned a merged cluster of tier minZoom
C8_Witness ==
    /\ Loaded /\ query # <<>>
    /\ query[2] < minZoom
    /\ \E n \in DOMAIN result.features : n \in trees[minZoom] /\ nodes[n].numPoints >= 2

\* coordinates the claim calls invalid: a non-numeric longitude or latitude, or
\* a longitude out of range (a latitude beyond +-90 is said to be accepted)
Invalid(c) == c[1] = NaN \/ c[2] = NaN \/ c[1] < -180 \/ c[1] > 180

C10_PureRead ==
    [][(pc = "idle" /\ pc' = "idle" /\ loads' = loads) =>
          /\ nodes' = nodes
          /\ trees' = trees
          /\ query' = query => result' = result]_vars

\* C10 happens: a query returned a merged cluster and a leaf
C10_Witness ==
    /\ Loaded /\ query # <<>>
    /\ \E n, m \in DOMAIN result.features :
          nodes[n].numPoints >= 2 /\ nodes[m].point # <<>>

-----------------------------------------------------------------------------
(* Query result *)

\* longitude and latitude of a node's anchor, in 1/WDen degrees
AnchorLng(n) == IF n.x = NaN THEN NaN ELSE xLng(n.x * WDen)
AnchorLat(n) == IF n.y = NaN THEN NaN ELSE yLat(n.y * WDen)

\* the anchor lies at longitude in [west, east] and latitude in [south, north]
AnchorInGeoBox(bbox, n) ==
    /\ AnchorLng(n) # NaN /\ AnchorLat(n) # NaN
    /\ bbox[1] * WDen <= AnchorLng(n) /\ AnchorLng(n) <= bbox[3] * WDen
    /\ bbox[2] * WDen <= AnchorLat(n) /\ AnchorLat(n) <= bbox[4] * WDen

\* the anchor lies in the projected box: x between the projections of west and
\* east, y between the projection of north (minimum) and of south (maximum)
AnchorInProjectedBox(bbox, n) ==
    /\ n.x # NaN /\ n.y # NaN
    /\ lngX(bbox[1]) <= n.x /\ n.x <= lngX(bbox[3])
    /\ latY(bbox[4]) <= n.y /\ n.y <= latY(bbox[2])

\* the feature the node with identity m yields: a leaf its input feature, an aggregate a cluster
\* feature with the node's numPoints at the unprojected weighted center
NodeFeature(m) ==
    IF nodes[m].children = <<>>
    THEN input[m - base]
    ELSE [type |-> "Feature",
          properties |-> [cluster |-> TRUE, numPoints |-> nodes[m].numPoints],
          geometry |-> [type |-> "Point",
                        coordinates |-> <<xLng(nodes[m].wx), yLat(nodes[m].wy)>>]]

\* C11 as claimed. getClusters([west, south, east, north], zoom) returns exactly
\* one feature for each node of the clamped zoom's tier whose anchor lies at
\* longitude in [west, east] and latitude in [south, north], and no other: a
\* leaf yields its input feature, an aggregate a cluster feature with its
\* numPoints.
C11_QueryResultAsClaimed ==
    (Loaded /\ query # <<>>) =>
        /\ ~result.threw
        /\ LET tier == trees[Clamped(query[2])]
           IN  /\ DOMAIN result.features =
                     {n \in tier : AnchorInGeoBox(query[1], nodes[n])}
               /\ \A n \in DOMAIN result.features :
                     result.features[n] = NodeFeature(n)

\* C11, amended. getClusters([west, south, east, north], zoom) returns exactly
\* one feature for each node of the clamped zoom's tier whose anchor lies in the
\* projected box (x between the projections of west and east, y between the
\* projection of north and that of south, both clamped to the plane), and no
\* other: a leaf yields its input feature, an aggregate a cluster feature with
\* its numPoints.
C11_QueryResult ==
    (Loaded /\ query # <<>>) =>
        /\ ~result.threw
        /\ LET tier == trees[Clamped(query[2])]
           IN  /\ DOMAIN result.features =
                     {n \in tier : AnchorInProjectedBox(query[1], nodes[n])}
               /\ \A n \in DOMAIN result.features :
                     result.features[n] = NodeFeature(n)

\* C11 happens: a query returned the cluster feature of an aggregate and left
\* out a node of the tier whose anchor is outside the box
C11_Witness ==
    /\ Loaded /\ query # <<>>
    /\ \E n \in DOMAIN result.features :
          /\ nodes[n].children # <<>>
          /\ result.features[n].properties.numPoints = nodes[n].numPoints
    /\ \E m \in trees[Clamped(query[2])] :
          m \notin DOMAIN result.features /\ nodes[m].x # NaN /\ nodes[m].y # NaN

-----------------------------------------------------------------------------
(* The merge step *)

\* a turn of _cluster's loop that created an aggregate
MergeStep == pc = "cluster" /\ Len(nodes') = Len(nodes) + 1

\* the node the turn processes and the aggregate it created
Claiming == points[i]
Created == nodes'[Len(nodes')]

\* the leaves reached from node m through children links
RECURSIVE Reachable(_)
Reachable(m) ==
    IF nodes[m].children = <<>> THEN {m}
    ELSE UNION {Reachable(nodes[m].children[j]) : j \in DOMAIN nodes[m].children}

\* C12. Aggregate composition: every aggregate created by a merge pass has
\* children equal to the claiming node p followed by the absorbed candidates,
\* its numPoints is the sum of its immediate children's numPoints, and every
\* input point it subsumes is reached from it through children links.
C12_AggregateComposition ==
    [][MergeStep =>
          /\ Len(Created.children) >= 2
          /\ Created.children[1] = Claiming
          /\ \A b \in DOMAIN nodes :
                (b # Claiming /\ nodes[b].zoom > z /\ nodes'[b].zoom = z) =>
                    \E j \in 2..Len(Created.children) : Created.children[j] = b
          /\ Created.numPoints =
                SumSeq([j \in DOMAIN Created.children |->
                           nodes[Created.children[j]].numPoints])
          /\ subsumes'[Len(nodes')] =
                UNION {Reachable(Created.children[j]) : j \in DOMAIN Created.children}]_vars

\* C13. Weighted center: for every aggregate, (wx, wy) times its numPoints is
\* the sum, over the claiming node p and every absorbed candidate b, of that
\* node's own weighted center (wx, wy) times its numPoints; a candidate that is
\* an aggregate contributes its weighted center, not its anchor.
C13_WeightedCenter ==
    [][MergeStep =>
          LET absorbed == {b \in DOMAIN nodes :
                              b # Claiming /\ nodes[b].zoom > z /\ nodes'[b].zoom = z}
              all == SetToSeqs(absorbed \cup {Claiming})
              own == CHOOSE s \in all : TRUE
          IN  /\ Created.wx * Created.numPoints =
                    SumSeq([j \in DOMAIN own |-> nodes[own[j]].wx * nodes[own[j]].numPoints])
              /\ Created.wy * Created.numPoints =
                    SumSeq([j \in DOMAIN own |-> nodes[own[j]].wy * nodes[own[j]].numPoints])]_vars

\* a turn of _cluster's loop that processes points[i] as a head
HeadStep == pc = "cluster" /\ i' = i + 1 /\ (nodes' # nodes \/ clusters' # clusters)

\* both coordinates of the anchor are numbers
NumericAnchor(n) == n.x # NaN /\ n.y # NaN

\* the nodes claimed so far in the running pass: the nodes the loop has gone
\* past and the children of the aggregates it has emitted
ClaimedInPass ==
    {points[k] : k \in 1..(i - 1)}
        \cup UNION {Range(nodes[clusters[k]].children) : k \in DOMAIN clusters}

\* the nodes of tier z + 1, other than p, not yet claimed in the pass, whose
\* anchor is within r_z of p's (boundary included)
Candidates(p) ==
    {b \in trees[z + 1] \ {p} :
        /\ b \notin ClaimedInPass
        /\ NumericAnchor(nodes[p]) /\ NumericAnchor(nodes[b])
        /\ DistanceAtMost(p, b, rNum, rDen(z))}

\* C14. Absorption rule: a node p processed as a head in the pass at zoom z
\* absorbs exactly the nodes of tier z + 1, other than p, not yet claimed in the
\* pass, whose anchor is at squared distance at most r^2 from p's, with
\* r = radius / (extent * 2^z); if there are none p is emitted unchanged,
\* otherwise one new aggregate is emitted.
C14_AbsorptionRule ==
    [][HeadStep =>
          LET p == Claiming
              absorbed == {b \in DOMAIN nodes \ {p} : nodes'[b].zoom # nodes[b].zoom}
          IN  /\ absorbed = Candidates(p)
              /\ IF Candidates(p) = {}
                 THEN /\ clusters' = Append(clusters, p)
                      /\ Len(nodes') = Len(nodes)
                      /\ [nodes'[p] EXCEPT !.zoom = 0] = [nodes[p] EXCEPT !.zoom = 0]
                 ELSE /\ Len(nodes') = Len(nodes) + 1
                      /\ clusters' = Append(clusters, Len(nodes'))
                      /\ Range(Created.children) = Candidates(p)
                      /\ Created.numPoints =
                            nodes[p].numPoints + SumNumPoints(Candidates(p))]_vars

\* C14 happens: the aggregate emitted last in the running pass absorbed a node
\* exactly r away from its anchor and left a node of the tier that is farther
C14_Witness ==
    /\ pc = "cluster" /\ clusters # <<>>
    /\ LET c == nodes[clusters[Len(clusters)]]
       IN  /\ c.children # <<>>
           /\ \E j \in DOMAIN c.children :
                 distSq(c, nodes[c.children[j]]) * rDen(z) * rDen(z) = rNum * rNum
           /\ \E b \in trees[z + 1] \ Range(c.children) :
                 /\ NumericAnchor(nodes[b])
                 /\ ~DistanceAtMost(clusters[Len(clusters)], b, rNum, rDen(z))

-----------------------------------------------------------------------------
(* Claim flags *)

\* a turn of _cluster's loop
LoopStep == pc = "cluster" /\ i' = i + 1

\* the nodes whose flag the turn writes: the head (line 81) and the nodes the
\* aggregate lists as absorbed (line 97); none for a turn that changes nothing
Written ==
    IF nodes' = nodes /\ clusters' = clusters THEN <<>>
    ELSE IF Len(nodes') = Len(nodes) THEN <<Claiming>>
    ELSE <<Claiming>> \o Created.children

\* C15. Claim flag discipline: in the pass at zoom z every node of the input set
\* has its flag written exactly once, to z; a flag only ever decreases; a node
\* is skipped only if an earlier head of the same pass absorbed it; and at the
\* start of the pass every node of the input set has a flag greater than z.
C15_ClaimFlagDiscipline ==
    [][/\ LoopStep =>
             \* a write is the first of the pass for its node, and writes z
          /\ \A j \in DOMAIN Written :
                /\ nodes[Written[j]].zoom > z
                /\ nodes'[Written[j]].zoom = z
                /\ Written[j] \in Range(points)
                /\ \A k \in DOMAIN Written : Written[k] = Written[j] => k = j
             \* no other flag changes
          /\ \A b \in DOMAIN nodes :
                b \notin Range(Written) => nodes'[b].zoom = nodes[b].zoom
             \* a skipped node was absorbed by an aggregate this pass emitted
          /\ Written = <<>> =>
                \E k \in DOMAIN clusters :
                    /\ clusters[k] \notin Range(points)
                    /\ Claiming \in Range(nodes[clusters[k]].children)
             \* a node the loop goes past has been written
          /\ nodes'[Claiming].zoom = z
       /\ \A b \in DOMAIN nodes : nodes'[b].zoom <= nodes[b].zoom
          \* at the start of a pass the flags of its input set are above z
       /\ (pc' = "cluster" /\ i' = 1) =>
             \A k \in DOMAIN points' : nodes'[points'[k]].zoom > z']_vars

\* C15 happens: in a pass below the finest zoom, the loop is at a node that an
\* earlier head absorbed, after a head that was emitted unchanged by this pass
\* and by the pass before
C15_Witness ==
    /\ pc = "cluster" /\ z < maxZoom /\ i >= 2 /\ i <= Len(points)
    /\ nodes[points[i]].zoom = z
    /\ \E k \in DOMAIN clusters :
          clusters[k] \notin Range(points)
              /\ points[i] \in Range(nodes[clusters[k]].children)
    /\ \E k \in DOMAIN clusters :
          clusters[k] \in Range(points) /\ clusters[k] <= Len(input)

-----------------------------------------------------------------------------
(* getClusters with a zoom that is not an integer *)

\* zooms given in halves: twice the zoom, so an odd number is k + 1/2
HalfZooms == {2 * zoom + 1 : zoom \in (minZoom - 1)..(maxZoom + 1)}

\* Math.max(minZoom, Math.min(zoom, maxZoom + 1)) for a zoom given in halves;
\* the result is in halves too
clampZoomHalves(twice) == Max(2 * minZoom, Min(twice, 2 * (maxZoom + 1)))

\* what getClusters(bbox, twice / 2) returns: this.trees[z] is undefined when z
\* is not an integer, and calling search on it throws
getClustersHalves(bbox, twice) ==
    LET zc == clampZoomHalves(twice)
    IN  IF zc % 2 # 0 \/ (zc \div 2) \notin DOMAIN trees
        THEN [threw |-> TRUE, features |-> <<>>]
        ELSE [threw |-> FALSE,
              features |-> [n \in search(nodes, trees[zc \div 2], projBBox(bbox)) |->
                               getCluster(nodes[n])]]

\* getClusters called with a zoom of k + 1/2; the query is recorded with the
\* zoom as the fraction twice / 2
GetClustersFractional ==
    /\ pc = "idle"
    /\ \E bbox \in BBoxes, twice \in HalfZooms :
         /\ query' = <<bbox, twice, 2>>
         /\ result' = getClustersHalves(bbox, twice)
    /\ UNCHANGED <<nodes, subsumes, trees, pc, input, base, points, z, i,
                   clusters, loads>>

NextFractional == Next \/ GetClustersFractional

SpecFractional == Init /\ [][NextFractional]_vars

\* C16. Non-integer zoom: getClusters(bbox, zoom) with a zoom that is not an
\* integer does not fail and returns the features of one integer tier in
\* minZoom .. maxZoom + 1.
C16_NonIntegerZoom ==
    (Loaded /\ Len(query) = 3 /\ query[2] % query[3] # 0) =>
        /\ ~result.threw
        /\ \E tier \in Tiers : result.features = TierFeatures(query[1], tier)

-----------------------------------------------------------------------------
(* Determinism *)

\* the sum of f over the nodes of a set, whatever the order
RECURSIVE SumOver(_, _)
SumOver(S, f) ==
    IF S = {} THEN 0
    ELSE LET n == CHOOSE m \in S : TRUE
         IN  f[n] + SumOver(S \ {n}, f)

\* the part of a node the hierarchy consists of: anchor, numPoints and weighted
\* center (the flag and the order of children are left out)
Shape(n) == [x |-> n.x, y |-> n.y, numPoints |-> n.numPoints, wx |-> n.wx, wy |-> n.wy]

\* what a head step makes of the hierarchy, given the set of nodes the range
\* search found for the head and no order among them
ShapeAfter(p, found) ==
    LET n == nodes[p].numPoints + SumOver(found, [b \in found |-> nodes[b].numPoints])
        sx == nodes[p].wx * nodes[p].numPoints
              + SumOver(found, [b \in found |-> nodes[b].x * WDen * nodes[b].numPoints])
        sy == nodes[p].wy * nodes[p].numPoints
              + SumOver(found, [b \in found |-> nodes[b].y * WDen * nodes[b].numPoints])
    IN  [x |-> nodes[p].x, y |-> nodes[p].y, numPoints |-> n,
         wx |-> sx \div n, wy |-> sy \div n]

-----------------------------------------------------------------------------
(* Anchors *)

\* the input point of a set of leaves that comes earliest in input order
Earliest(S) == CHOOSE m \in S : \A k \in S : m <= k

\* C18. Anchor stability: in every tier each node's anchor is the projected
\* position of the earliest, in input order, of the input points the node
\* subsumes (not the weighted centroid), and the anchor of an aggregate is the
\* anchor of the node that initiated the merge.
C18_AnchorStability ==
    [][/\ \A n \in DOMAIN nodes' :
             LET c == input'[Earliest(subsumes'[n]) - base'].geometry.coordinates
             IN  nodes'[n].x = lngX(c[1]) /\ nodes'[n].y = latY(c[2])
       /\ MergeStep =>
             /\ Created.x = nodes[Claiming].x
             /\ Created.y = nodes[Claiming].y]_vars

\* C18 happens: a tier of the loaded hierarchy holds an aggregate of three input
\* points whose weighted center is not its anchor
C18_Witness ==
    /\ Loaded
    /\ \E tier \in Tiers : \E n \in trees[tier] :
          /\ Cardinality(subsumes[n]) = 3
          /\ nodes[n].wx # nodes[n].x * WDen
          /\ nodes[n].x = nodes[Earliest(subsumes[n])].x

-----------------------------------------------------------------------------
(* Separation within a tier *)

\* the squared distance of the anchors of nodes a and b is greater than r^2 at
\* the zoom; a comparison with a non-numeric distance is false
FartherThanRadius(a, b, zoom) ==
    /\ NumericAnchor(nodes[a]) /\ NumericAnchor(nodes[b])
    /\ ~DistanceAtMost(a, b, rNum, rDen(zoom))

\* every coordinate of the input is a number
NumericInput ==
    \A k \in DOMAIN input :
        input[k].geometry.coordinates[1] # NaN /\ input[k].geometry.coordinates[2] # NaN

=============================================================================
